---- MODULE Spec2Model ----
(***************************************************************************)
(* Incremental document indexing of coaching_bot_gpt (src/main.py).        *)
(*                                                                         *)
(* The state is the docs folder, the persisted hash map                    *)
(* (file_hashes.json), the Pinecone index (its vectors by identifier) and  *)
(* the position and local variables of one ingest_documents run.  The      *)
(* remote calls (index listing/creation, vector delete, embedding, vector  *)
(* upsert) may each fail; a file may be unreadable.  The folder is edited  *)
(* only between runs.  Writing file_hashes.json is taken to succeed.       *)
(***************************************************************************)
EXTENDS Integers, Sequences, FiniteSets, TLC

\* ------------------------------------------------------------------------
\* Bounds.  The three identifier-range literals of the code are scaled down
\* so that a file can have more chunks than one batch and more chunks than
\* the deletion ceiling.

\* range(0, 1000, batch_size): the ceiling of delete_vectors_for_file
\* (1000 in the code).
DeleteCeiling == 2

\* batch_size of delete_vectors_for_file (100 in the code).
DeleteBatch == 1

\* batch_size of the upsert loop of ingest_documents (100 in the code).
UpsertBatch == 1

\* Events in one behaviour: edits of the docs folder, failures of remote
\* calls, and kills of the process.  Runs are not bounded.
MaxEvents == 4

\* Config.MAX_QUERY_LENGTH (1000 in the code).
MAX_QUERY_LENGTH == 2

\* Longest text given to smart_chunk_text.
MaxTextLen == 5

\* Largest max_chunk_size given to smart_chunk_text (Config.CHUNK_SIZE is 500).
MaxChunkSize == 3

\* Largest overlap given to smart_chunk_text (Config.CHUNK_OVERLAP is 50).
MaxOverlap == 2

\* A terminator ends a sentence only when the sentence is longer than this
\* (10 in the code).
SentenceMinLength == 1

\* /cleanup requests sent to one process.
MaxRequests == 2

\* Times ensure_index_exists sleeps while the new index is not listed yet.
MaxPolls == 2

\* ------------------------------------------------------------------------
\* Files and contents.

\* Names that can appear in the docs folder.
Names == {"a.txt", "b.pdf", ".c.txt", "d.doc"}

\* os.path.splitext(fname)[-1].lower()
Ext(f) ==
    CASE f = "a.txt"  -> ".txt"
      [] f = "b.pdf"  -> ".pdf"
      [] f = ".c.txt" -> ".txt"
      [] f = "d.doc"  -> ".doc"

\* fname.startswith('.')
IsHidden(f) == f = ".c.txt"

SUPPORTED_EXTENSIONS == {".txt", ".pdf", ".docx"}

\* A file's content is identified by a number; its extracted text splits
\* into ChunkCount(c) chunks.  Content 1 yields no text at all.
Contents == 1..4

ChunkCount(c) ==
    CASE c = 1 -> 0
      [] c = 2 -> 1
      [] c = 3 -> DeleteBatch + 1
      [] c = 4 -> DeleteCeiling + 1

\* What can be written under a name: hidden and unsupported names never
\* reach hashing or extraction, so one content is enough for them.
ContentsFor(f) ==
    IF IsHidden(f) \/ Ext(f) \notin SUPPORTED_EXTENSIONS THEN {2}
    ELSE IF f = "b.pdf" THEN {2, 3} ELSE Contents

NoFile == [content |-> 0, readable |-> FALSE]

\* The digest file_checksum returns when the file cannot be read ("").
EmptyDigest == 0

\* hashlib.sha256 of the content: injective, never the empty string.
Sha256(c) == 100 + c

EmptyMap == [f \in {} |-> EmptyDigest]

EmptyStore == [id \in {} |-> [source |-> "", text |-> <<0, 0>>, chunk_index |-> 0, total_chunks |-> 0]]

VARIABLES
    folder,          \* docs folder: name -> [content, readable] or NoFile
    docs_exists,     \* os.path.exists(docs_path)
    hashes,          \* contents of file_hashes.json
    store,           \* the index: identifier <<filename, i>> -> metadata
    index_exists,    \* Config.INDEX_NAME in pc.list_indexes().names()
    pc,              \* position of the run
    current_hashes,  \* local of cleanup_deleted_files / ingest_documents
    current_files,   \* local of cleanup_deleted_files
    deleted_files,   \* deleted files still to be cleaned up
    del_file,        \* filename argument of delete_vectors_for_file
    start_idx,       \* loop variable of delete_vectors_for_file
    new_hashes,      \* local of ingest_documents
    todo,            \* os.listdir entries not yet iterated
    fname,           \* loop variable of ingest_documents
    vectors,         \* local of ingest_documents
    upsert_i,        \* loop variable of the upsert loop
    faults,          \* remote-call failures so far in this run
    calls,           \* <<operation, filename>> issued in this run
    delete_ids,      \* identifiers named by the delete calls of this run
    loads,           \* reads of file_hashes.json in this run
    saves,           \* writes of file_hashes.json in this run
    upsert_sent,     \* upsert calls issued for fname: [ids, ok], in call order
    failed_chunks,   \* chunk indexes of fname whose embedding call failed
    delete_sent,     \* delete calls issued by the current call of
                     \* delete_vectors_for_file: [ids, ok, hit], hit = the
                     \* identifiers of the call that were in the index
    start_hashes,    \* file_hashes.json when the run started
    prev_done,       \* the previous run completed and no edit followed
    after_crash,     \* the previous run was interrupted and no edit followed
    crash_completed, \* files the interrupted run had fully processed
    orphaned,        \* absent files whose cleanup deletion had a failed batch
    barren,          \* files recorded by a completed run without any vector
    events,          \* folder edits and failures so far
    s_pc,            \* position of the /search request being handled
    q,               \* the q parameter of the request
    query,           \* q.strip()
    matches,         \* identifiers of results["matches"]
    response,        \* what generate_response returned
    status_code,     \* HTTP status of the reply
    s_calls,         \* remote calls and log lines of the request
    c_pc,            \* position in smart_chunk_text
    text,            \* argument text
    max_chunk_size,  \* argument max_chunk_size
    overlap,         \* argument overlap
    sentences,       \* local sentences
    ends,            \* sentence loop: <<position, len(current_sentence)>> at
                     \* each sentences.append inside the loop
    steps,           \* chunk loop: per sentence, current_chunk before and
                     \* after and whether the chunk was closed
    chunks,          \* local chunks: [text, carried], carried = length of the
                     \* prefix taken over from the previous chunk
    pieces,          \* for each chunk, the strings it contributes to final_chunks
    final_chunks,    \* the returned list
    task_pc,         \* position of each coroutine of the event loop
    running,         \* the coroutine the event loop is executing
    serving,         \* startup is complete: requests are dispatched
    polls,           \* times ensure_index_exists has slept
    io_log           \* <<coroutine, operation>> on file_hashes.json and the
                     \* index, in execution order

vars == <<folder, docs_exists, hashes, store, index_exists, pc, current_hashes,
          current_files, deleted_files, del_file, start_idx, new_hashes, todo,
          fname, vectors, upsert_i, faults, calls, delete_ids, loads, saves,
          upsert_sent, failed_chunks, delete_sent, start_hashes, prev_done, after_crash,
          crash_completed, orphaned, barren, events,
          s_pc, q, query, matches, response, status_code, s_calls,
          c_pc, text, max_chunk_size, overlap, sentences, ends, steps, chunks,
          pieces, final_chunks, task_pc, running, serving, polls, io_log>>

envVars == <<folder, docs_exists>>
persistVars == <<hashes, store, index_exists>>
localVars == <<current_hashes, current_files, deleted_files, del_file, start_idx,
               new_hashes, todo, fname, vectors, upsert_i>>
fileLog == <<upsert_sent, failed_chunks>>
logVars == <<faults, calls, delete_ids, loads, saves, fileLog>>
runHist == <<start_hashes, prev_done, after_crash, crash_completed, orphaned, barren>>
histVars == <<runHist, events>>
searchVars == <<s_pc, q, query, matches, response, status_code, s_calls>>
chunkVars == <<c_pc, text, max_chunk_size, overlap, sentences, ends, steps, chunks,
               pieces, final_chunks>>
loopVars == <<task_pc, running, serving, polls, io_log>>
otherVars == <<searchVars, chunkVars, loopVars>>
ingestVars == <<envVars, persistVars, pc, localVars, logVars, delete_sent, histVars>>

Resting == {"idle", "done", "nodocs", "aborted", "crashed"}

InRun == pc \notin Resting

Present(f) == folder[f] # NoFile

\* os.path.isfile(path) and not fname.startswith('.') and ext in SUPPORTED_EXTENSIONS
Eligible(f) == Present(f) /\ ~IsHidden(f) /\ Ext(f) \in SUPPORTED_EXTENSIONS

\* file_checksum(path)
file_checksum(f) == IF folder[f].readable THEN Sha256(folder[f].content) ELSE EmptyDigest

\* No /search request is being handled.
SearchIdle ==
    /\ s_pc = "idle"
    /\ q = <<>>
    /\ query = <<>>
    /\ matches = {}
    /\ response = "none"
    /\ status_code = 0
    /\ s_calls = {}

\* No run of ingest_documents has started since the process started, and
\* the docs folder is empty.
IngestIdle ==
    /\ folder = [f \in Names |-> NoFile]
    /\ docs_exists = TRUE
    /\ pc = "idle"
    /\ current_hashes = EmptyMap
    /\ current_files = {}
    /\ deleted_files = {}
    /\ del_file = ""
    /\ start_idx = 0
    /\ new_hashes = EmptyMap
    /\ todo = {}
    /\ fname = ""
    /\ vectors = <<>>
    /\ upsert_i = 0
    /\ faults = 0
    /\ calls = {}
    /\ delete_ids = {}
    /\ loads = 0
    /\ saves = 0
    /\ upsert_sent = <<>>
    /\ failed_chunks = {}
    /\ delete_sent = <<>>
    /\ start_hashes = EmptyMap
    /\ prev_done = FALSE
    /\ after_crash = FALSE
    /\ crash_completed = {}
    /\ orphaned = {}
    /\ barren = {}
    /\ events = 0

\* The coroutines of one process: the startup handler, which awaits
\* ingest_documents, and the handlers of the /cleanup requests.
StartupTask == <<"startup", 0>>
CleanupTasks == {<<"cleanup", i>> : i \in 1..MaxRequests}
Tasks == {StartupTask} \cup CleanupTasks
NoTask == <<"none", 0>>

\* The event loop has not been started.
LoopIdle ==
    /\ task_pc = [t \in Tasks |-> "absent"]
    /\ running = NoTask
    /\ serving = FALSE
    /\ polls = 0
    /\ io_log = <<>>

\* smart_chunk_text is not being evaluated.
ChunkIdle ==
    /\ c_pc = "idle"
    /\ text = <<>>
    /\ max_chunk_size = 1
    /\ overlap = 0
    /\ sentences = <<>>
    /\ ends = {}
    /\ steps = <<>>
    /\ chunks = <<>>
    /\ pieces = <<>>
    /\ final_chunks = <<>>

Init ==
    /\ IngestIdle
    /\ SearchIdle
    /\ ChunkIdle
    /\ LoopIdle
    /\ hashes = EmptyMap
    /\ store = EmptyStore
    /\ index_exists = FALSE

\* ------------------------------------------------------------------------
\* The docs folder, edited between runs.  An edit ends the record of the
\* last run: the run's locals and log are cleared.

\* Files whose iteration of the ingest loop ended on the new-or-changed path.
Finished == {f \in Names : <<"finished", f>> \in calls}

\* Files processed on the new-or-changed path without a single upsert call:
\* no text, no chunks, or every embedding failed.
NoVectorFiles == {f \in Finished : <<"upsert", f>> \notin calls}

Forget(touched) ==
    /\ orphaned' = orphaned \ touched
    /\ barren' = (IF pc = "done" THEN barren \cup NoVectorFiles ELSE barren) \ touched
    /\ pc \in Resting
    /\ events < MaxEvents
    /\ events' = events + 1
    /\ pc' = "idle"
    /\ current_hashes' = EmptyMap
    /\ current_files' = {}
    /\ deleted_files' = {}
    /\ del_file' = ""
    /\ start_idx' = 0
    /\ new_hashes' = EmptyMap
    /\ todo' = {}
    /\ fname' = ""
    /\ vectors' = <<>>
    /\ upsert_i' = 0
    /\ faults' = 0
    /\ calls' = {}
    /\ delete_ids' = {}
    /\ loads' = 0
    /\ saves' = 0
    /\ upsert_sent' = <<>>
    /\ failed_chunks' = {}
    /\ delete_sent' = <<>>
    /\ start_hashes' = EmptyMap
    /\ prev_done' = FALSE
    /\ after_crash' = FALSE
    /\ crash_completed' = {}
    /\ UNCHANGED otherVars

WriteFile(f, c) ==
    /\ docs_exists
    /\ c \in ContentsFor(f)
    /\ folder[f] # [content |-> c, readable |-> TRUE]
    /\ folder' = [folder EXCEPT ![f] = [content |-> c, readable |-> TRUE]]
    /\ Forget({f})
    /\ UNCHANGED <<docs_exists, persistVars>>

RemoveFile(f) ==
    /\ Present(f)
    /\ folder' = [folder EXCEPT ![f] = NoFile]
    /\ Forget({f})
    /\ UNCHANGED <<docs_exists, persistVars>>

\* The file stays but can no longer be opened.
MakeUnreadable(f) ==
    /\ Eligible(f)
    /\ folder[f].readable
    /\ folder' = [folder EXCEPT ![f].readable = FALSE]
    /\ Forget({f})
    /\ UNCHANGED <<docs_exists, persistVars>>

RemoveDocs ==
    /\ docs_exists
    /\ docs_exists' = FALSE
    /\ folder' = [f \in Names |-> NoFile]
    /\ Forget(Names)
    /\ UNCHANGED persistVars

CreateDocs ==
    /\ ~docs_exists
    /\ docs_exists' = TRUE
    /\ Forget({})
    /\ UNCHANGED <<folder, persistVars>>

\* ------------------------------------------------------------------------
\* Helpers of the run.

Min(a, b) == IF a < b THEN a ELSE b

\* Variant of HasDeleted: the cleanup branch is taken on every run.
HasDeleted_Always(d) == TRUE

\* `if deleted_files:` in cleanup_deleted_files
HasDeleted(d) == d # {}

\* Variant of PersistAfterFile: the map is checkpointed after every file.
PersistAfterFile_Checkpoint(h, nh) == nh

\* The end of a file's iteration writes nothing: file_hashes.json stays as
\* it is until save_file_hashes(new_hashes) after the loop.
PersistAfterFile(h, nh) == h

\* load_file_hashes()
load_file_hashes == hashes

\* The listing of cleanup_deleted_files: regular, not hidden, supported.
ListCurrentFiles == {f \in Names : Eligible(f)}

\* {k: v for k, v in current_hashes.items() if k in current_files}
updated_hashes(cur, files) == [k \in (DOMAIN cur) \cap files |-> cur[k]]

\* Variant of RecordHash: the hash is not recorded.
RecordHash_Dropped(nh, f, h) == nh

\* new_hashes[fname] = current_hash
RecordHash(nh, f, h) == [k \in (DOMAIN nh) \cup {f} |-> IF k = f THEN h ELSE nh[k]]

\* Variant of IsUnchanged: the comparison is inverted.
IsUnchanged_Inverted(cur, f, h) == f \in DOMAIN cur /\ cur[f] # h

\* fname in current_hashes and current_hashes[fname] == current_hash
IsUnchanged(cur, f, h) == f \in DOMAIN cur /\ cur[f] = h

\* Variant of NeedsDelete: old vectors are never deleted before re-indexing.
NeedsDelete_Never(cur, f) == FALSE

\* if fname in current_hashes: delete_vectors_for_file(index, fname)
NeedsDelete(cur, f) == f \in DOMAIN cur

\* ids_batch of delete_vectors_for_file
ids_batch(f, s) == {<<f, i>> : i \in s .. (Min(s + DeleteBatch, DeleteCeiling) - 1)}

\* Variant of ids_batch: only identifiers that are in the index are named.
ids_batch_Existing(st, f, s) ==
    {<<f, i>> : i \in s .. (Min(s + DeleteBatch, DeleteCeiling) - 1)} \cap DOMAIN st

\* The identifiers index.delete is called with in the iteration at s: the
\* batch is built from the file name and the loop variable alone.
DeleteArgument(st, f, s) == ids_batch(f, s)

\* The record of one index.delete call.
DeleteCall(st, f, s, ok) ==
    [ids |-> DeleteArgument(st, f, s), ok |-> ok,
     hit |-> DeleteArgument(st, f, s) \cap DOMAIN st]

\* index.delete(ids=ids_batch): absent identifiers are not an error
IndexDelete(st, ids) == [id \in (DOMAIN st) \ ids |-> st[id]]

\* One entry of the vectors list of ingest_documents, for chunk i of n.
VectorEntry(f, c, i, n) ==
    [id |-> <<f, i>>,
     metadata |-> [source |-> f, text |-> <<c, i>>, chunk_index |-> i, total_chunks |-> n]]

\* Variant of EmbedDrops: a failed embedding ends the embedding loop, so
\* the chunks after it are dropped too.
EmbedDrops_Rest(failed, i) == \E j \in failed : j <= i

\* except Exception ... continue: chunk i is left out of vectors exactly
\* when embed_text(chunk) raised for it.
EmbedDrops(failed, i) == i \in failed

\* The vectors list: the chunks whose embedding succeeded, in chunk order.
RECURSIVE BuildVectors(_, _, _, _, _)
BuildVectors(f, c, i, n, failed) ==
    IF i >= n THEN <<>>
    ELSE (IF EmbedDrops(failed, i) THEN <<>> ELSE <<VectorEntry(f, c, i, n)>>)
         \o BuildVectors(f, c, i + 1, n, failed)

\* Variant of UpsertSlice: the slice runs one entry into the next batch.
UpsertSlice_Overlapping(vs, i) == SubSeq(vs, i + 1, Min(i + UpsertBatch + 1, Len(vs)))

\* vectors[i:i + batch_size]
UpsertSlice(vs, i) == SubSeq(vs, i + 1, Min(i + UpsertBatch, Len(vs)))

\* The identifiers of a batch, in order.
BatchIds(batch) == [k \in 1..Len(batch) |-> batch[k].id]

\* index.upsert(vectors=batch): replace or insert by identifier
IndexUpsert(st, batch) ==
    LET ids == {batch[k].id : k \in 1..Len(batch)}
        Meta(id) == (CHOOSE k \in 1..Len(batch) : batch[k].id = id)
    IN  [id \in (DOMAIN st) \cup ids |->
            IF id \in ids THEN batch[Meta(id)].metadata ELSE st[id]]

\* extract_text_from_file then smart_chunk_text: the number of chunks.
\* An unreadable file raises inside extract_text_from_file, which returns "".
ExtractedChunks(f) == IF folder[f].readable THEN ChunkCount(folder[f].content) ELSE 0

\* ------------------------------------------------------------------------
\* One run of ingest_documents.

\* ingest_documents is called: the docs folder is checked first.
StartRun ==
    /\ pc \in Resting
    /\ events' = events
    /\ pc' = IF docs_exists THEN "ensure" ELSE "nodocs"
    /\ start_hashes' = hashes
    /\ prev_done' = (pc \in {"done", "nodocs"})
    /\ after_crash' = (pc = "crashed")
    /\ crash_completed' = IF pc = "crashed" THEN Finished ELSE {}
    /\ barren' = IF pc = "done" THEN barren \cup NoVectorFiles ELSE barren
    /\ orphaned' = orphaned
    /\ current_hashes' = EmptyMap
    /\ current_files' = {}
    /\ deleted_files' = {}
    /\ del_file' = ""
    /\ start_idx' = 0
    /\ new_hashes' = EmptyMap
    /\ todo' = {}
    /\ fname' = ""
    /\ vectors' = <<>>
    /\ upsert_i' = 0
    /\ faults' = 0
    /\ calls' = {}
    /\ delete_ids' = {}
    /\ loads' = 0
    /\ saves' = 0
    /\ upsert_sent' = <<>>
    /\ failed_chunks' = {}
    /\ delete_sent' = <<>>
    /\ UNCHANGED <<otherVars, envVars, persistVars>>

\* ensure_index_exists returns: the index exists afterwards.
EnsureIndexOk ==
    /\ pc = "ensure"
    /\ index_exists' = TRUE
    /\ pc' = "cleanup"
    /\ UNCHANGED <<otherVars, envVars, hashes, store, localVars, logVars, histVars>>
    /\ UNCHANGED delete_sent

\* Variant of AfterEnsureError: the error is logged and the run goes on.
AfterEnsureError_Swallowed == "cleanup"

\* `raise` in the except clause of ensure_index_exists; ingest_documents
\* does not catch it.
AfterEnsureError == "aborted"

\* ensure_index_exists raises (list_indexes or create_index failed, the
\* latter possibly after the index was created): ingest_documents raises.
EnsureIndexFail ==
    /\ pc = "ensure"
    /\ events < MaxEvents
    /\ events' = events + 1
    /\ faults' = faults + 1
    /\ \E created \in {index_exists, TRUE} : index_exists' = created
    /\ pc' = AfterEnsureError
    /\ UNCHANGED <<fileLog, otherVars, envVars, hashes, store, localVars, calls, delete_ids, loads,
                   saves, runHist>>
    /\ UNCHANGED delete_sent

\* cleanup_deleted_files: load the map, list the folder, find deleted files.
CleanupBegin ==
    /\ pc = "cleanup"
    /\ current_hashes' = load_file_hashes
    /\ loads' = loads + 1
    /\ current_files' = ListCurrentFiles
    /\ deleted_files' = (DOMAIN load_file_hashes) \ ListCurrentFiles
    /\ pc' = IF HasDeleted((DOMAIN load_file_hashes) \ ListCurrentFiles)
             THEN "cleanup_index" ELSE "ingest_load"
    /\ UNCHANGED <<fileLog, otherVars, envVars, persistVars, del_file, start_idx, new_hashes, todo,
                   fname, vectors, upsert_i, faults, calls, delete_ids, saves,
                   histVars>>
    /\ UNCHANGED delete_sent

\* index = pc.Index(Config.INDEX_NAME) inside cleanup_deleted_files.
CleanupIndexOk ==
    /\ pc = "cleanup_index"
    /\ pc' = "cleanup_loop"
    /\ UNCHANGED <<otherVars, envVars, persistVars, localVars, logVars, histVars>>
    /\ UNCHANGED delete_sent

\* pc.Index raises: the except clause of cleanup_deleted_files logs it and
\* the function returns without deleting or saving.
CleanupIndexFail ==
    /\ pc = "cleanup_index"
    /\ events < MaxEvents
    /\ events' = events + 1
    /\ faults' = faults + 1
    /\ pc' = "ingest_load"
    /\ UNCHANGED <<fileLog, otherVars, envVars, persistVars, localVars, calls, delete_ids, loads,
                   saves, runHist>>
    /\ UNCHANGED delete_sent

\* for filename in deleted_files: delete_vectors_for_file(index, filename)
CleanupNext ==
    /\ pc = "cleanup_loop"
    /\ \E filename \in deleted_files :
        /\ del_file' = filename
        /\ deleted_files' = deleted_files \ {filename}
    /\ start_idx' = 0
    /\ delete_sent' = <<>>
    /\ pc' = "cleanup_delete"
    /\ UNCHANGED <<otherVars, envVars, persistVars, current_hashes, current_files,
                   new_hashes, todo, fname, vectors, upsert_i, logVars, histVars>>

\* save_file_hashes(updated_hashes) at the end of cleanup_deleted_files.
CleanupSave ==
    /\ pc = "cleanup_loop"
    /\ deleted_files = {}
    /\ hashes' = updated_hashes(current_hashes, current_files)
    /\ saves' = saves + 1
    /\ pc' = "ingest_load"
    /\ UNCHANGED <<fileLog, otherVars, envVars, store, index_exists, localVars, faults, calls,
                   delete_ids, loads, histVars>>
    /\ UNCHANGED delete_sent

\* Where delete_vectors_for_file returns to.
AfterDelete == IF pc = "cleanup_delete" THEN "cleanup_loop" ELSE "process"

\* The calls logged by one delete batch; the last one also logs the return.
DeleteLog(f, failed, last) ==
    {<<"delete", f>>}
    \cup (IF failed THEN {<<"delete_failed", f>>} ELSE {})
    \cup (IF last THEN {<<"delete_return", f>>} ELSE {})

\* Variant of DeleteResult: a failed batch makes the function return False.
DeleteResult_Reports(sent) == \A k \in 1..Len(sent) : sent[k].ok

\* `return True` after the loop of delete_vectors_for_file, whatever the
\* calls sent did; `return False` is reached only from the outer except,
\* which no index.delete exception gets to.
DeleteResult(sent) == TRUE

\* What the return of delete_vectors_for_file logs: its value and, in
\* cleanup_deleted_files, the branch of `if success:`.
ReturnLog(at, f, sent) ==
    {<<IF DeleteResult(sent) THEN "delete_true" ELSE "delete_false", f>>}
    \cup (IF at = "cleanup_delete"
          THEN {<<IF DeleteResult(sent) THEN "cleaned" ELSE "clean_failed", f>>}
          ELSE {})

\* After a failed batch: `break` leaves the loop.
BreaksOnFailure == TRUE

\* One iteration of delete_vectors_for_file whose index.delete succeeds.
DeleteBatchOk ==
    /\ pc \in {"cleanup_delete", "ingest_delete"}
    /\ store' = IndexDelete(store, DeleteArgument(store, del_file, start_idx))
    /\ delete_ids' = delete_ids \cup DeleteArgument(store, del_file, start_idx)
    /\ delete_sent' = Append(delete_sent, DeleteCall(store, del_file, start_idx, TRUE))
    /\ LET last == start_idx + DeleteBatch >= DeleteCeiling IN
        /\ calls' = calls \cup DeleteLog(del_file, FALSE, last)
                      \cup (IF last THEN ReturnLog(pc, del_file, delete_sent') ELSE {})
        /\ start_idx' = IF last THEN start_idx ELSE start_idx + DeleteBatch
        /\ pc' = IF last THEN AfterDelete ELSE pc
    /\ UNCHANGED <<fileLog, otherVars, envVars, hashes, index_exists, current_hashes, current_files,
                   deleted_files, del_file, new_hashes, todo, fname, vectors,
                   upsert_i, faults, loads, saves, histVars>>

\* One iteration whose index.delete raises: logged at debug level, then the
\* loop is left and the function returns True.
DeleteBatchFail ==
    /\ pc \in {"cleanup_delete", "ingest_delete"}
    /\ events < MaxEvents
    /\ events' = events + 1
    /\ faults' = faults + 1
    /\ delete_ids' = delete_ids \cup DeleteArgument(store, del_file, start_idx)
    /\ delete_sent' = Append(delete_sent, DeleteCall(store, del_file, start_idx, FALSE))
    /\ LET last == BreaksOnFailure \/ start_idx + DeleteBatch >= DeleteCeiling IN
        /\ calls' = calls \cup DeleteLog(del_file, TRUE, last)
                      \cup (IF last THEN ReturnLog(pc, del_file, delete_sent') ELSE {})
        /\ start_idx' = IF last THEN start_idx ELSE start_idx + DeleteBatch
        /\ pc' = IF last THEN AfterDelete ELSE pc
    /\ orphaned' = IF pc = "cleanup_delete" THEN orphaned \cup {del_file} ELSE orphaned
    /\ UNCHANGED <<fileLog, otherVars, envVars, persistVars, current_hashes, current_files,
                   deleted_files, del_file, new_hashes, todo, fname, vectors,
                   upsert_i, loads, saves, start_hashes, prev_done, after_crash,
                   crash_completed, barren>>

\* index = pc.Index(...); current_hashes = load_file_hashes(); new_hashes = {}
\* and the os.listdir of the loop.
IngestLoad ==
    /\ pc = "ingest_load"
    /\ current_hashes' = load_file_hashes
    /\ loads' = loads + 1
    /\ new_hashes' = EmptyMap
    /\ todo' = {f \in Names : Present(f)}
    /\ pc' = "loop"
    /\ UNCHANGED <<fileLog, otherVars, envVars, persistVars, current_files, deleted_files, del_file,
                   start_idx, fname, vectors, upsert_i, faults, calls,
                   delete_ids, saves, histVars>>
    /\ UNCHANGED delete_sent

\* pc.Index raises in ingest_documents, outside any try: the run raises.
IngestIndexFail ==
    /\ pc = "ingest_load"
    /\ events < MaxEvents
    /\ events' = events + 1
    /\ faults' = faults + 1
    /\ pc' = "aborted"
    /\ UNCHANGED <<fileLog, otherVars, envVars, persistVars, localVars, calls, delete_ids, loads,
                   saves, runHist>>
    /\ UNCHANGED delete_sent

\* One iteration of `for fname in os.listdir(docs_path)` up to the decision
\* what to do with the file.
Classify ==
    /\ pc = "loop"
    /\ \E f \in todo :
        /\ todo' = todo \ {f}
        /\ IF IsHidden(f) \/ Ext(f) \notin SUPPORTED_EXTENSIONS
           THEN UNCHANGED <<new_hashes, fname, del_file, start_idx, delete_sent, pc>>
           ELSE /\ new_hashes' = RecordHash(new_hashes, f, file_checksum(f))
                /\ IF IsUnchanged(current_hashes, f, file_checksum(f))
                   THEN UNCHANGED <<fname, del_file, start_idx, delete_sent, pc>>
                   ELSE /\ fname' = f
                        /\ IF NeedsDelete(current_hashes, f)
                           THEN /\ del_file' = f
                                /\ start_idx' = 0
                                /\ delete_sent' = <<>>
                                /\ pc' = "ingest_delete"
                           ELSE /\ UNCHANGED <<del_file, start_idx, delete_sent>>
                                /\ pc' = "process"
    /\ UNCHANGED <<otherVars, envVars, persistVars, current_hashes, current_files,
                   deleted_files, vectors, upsert_i, logVars, histVars>>

\* extract_text_from_file, smart_chunk_text and the embedding loop, in
\* which embed_text raises for the chunks in failed; they are left out of
\* vectors.
ProcessWith(failed) ==
    /\ pc = "process"
    /\ LET n == ExtractedChunks(fname) IN
            /\ failed \subseteq 0 .. (n - 1)
            /\ events + Cardinality(failed) <= MaxEvents
            /\ events' = events + Cardinality(failed)
            /\ faults' = faults + Cardinality(failed)
            /\ vectors' = BuildVectors(fname, folder[fname].content, 0, n, failed)
            /\ upsert_i' = 0
            /\ upsert_sent' = <<>>
            /\ failed_chunks' = failed
            /\ hashes' = IF vectors' = <<>> THEN PersistAfterFile(hashes, new_hashes)
                          ELSE hashes
            /\ IF vectors' = <<>>
               THEN /\ pc' = "loop"
                    /\ calls' = calls \cup {<<"extract", fname>>, <<"finished", fname>>}
                              \cup (IF n > 0 THEN {<<"chunk", fname>>, <<"embed", fname>>} ELSE {})
               ELSE /\ pc' = "upsert"
                    /\ calls' = calls \cup {<<"extract", fname>>, <<"chunk", fname>>,
                                            <<"embed", fname>>}
    /\ UNCHANGED <<otherVars, envVars, store, index_exists, current_hashes, current_files,
                   deleted_files, del_file, start_idx, new_hashes, todo, fname,
                   delete_ids, loads, saves, runHist>>
    /\ UNCHANGED delete_sent

\* Any set of chunks may fail to embed.
Process ==
    /\ pc = "process"
    /\ \E failed \in SUBSET (0 .. (ExtractedChunks(fname) - 1)) : ProcessWith(failed)

\* The calls logged by one upsert batch; the last one ends the iteration.
UpsertLog(f, failed, last) ==
    {<<"upsert", f>>}
    \cup (IF failed THEN {<<"upsert_failed", f>>} ELSE {})
    \cup (IF last THEN {<<"finished", f>>} ELSE {})

\* One iteration of the upsert loop whose index.upsert succeeds.
UpsertBatchOk ==
    /\ pc = "upsert"
    /\ store' = IndexUpsert(store, UpsertSlice(vectors, upsert_i))
    /\ upsert_sent' = Append(upsert_sent,
                             [ids |-> BatchIds(UpsertSlice(vectors, upsert_i)), ok |-> TRUE])
    /\ LET last == upsert_i + UpsertBatch >= Len(vectors) IN
        /\ calls' = calls \cup UpsertLog(fname, FALSE, last)
        /\ upsert_i' = upsert_i + UpsertBatch
        /\ pc' = IF last THEN "loop" ELSE pc
        /\ hashes' = IF last THEN PersistAfterFile(hashes, new_hashes) ELSE hashes
    /\ UNCHANGED <<failed_chunks, otherVars, envVars, index_exists, current_hashes, current_files,
                   deleted_files, del_file, start_idx, new_hashes, todo, fname,
                   vectors, faults, delete_ids, loads, saves, histVars>>
    /\ UNCHANGED delete_sent

\* Variant of AfterUpsertError: the exception leaves ingest_documents.
AfterUpsertError_Raise(next) == "aborted"

\* except Exception around index.upsert: the error is logged and control
\* goes where it would have gone after a successful call.
AfterUpsertError(next) == next

\* One iteration whose index.upsert raises: logged, the loop goes on.
UpsertBatchFail ==
    /\ pc = "upsert"
    /\ events < MaxEvents
    /\ events' = events + 1
    /\ faults' = faults + 1
    /\ upsert_sent' = Append(upsert_sent,
                             [ids |-> BatchIds(UpsertSlice(vectors, upsert_i)), ok |-> FALSE])
    /\ LET last == upsert_i + UpsertBatch >= Len(vectors) IN
        /\ calls' = calls \cup UpsertLog(fname, TRUE, last)
        /\ upsert_i' = upsert_i + UpsertBatch
        /\ pc' = AfterUpsertError(IF last THEN "loop" ELSE pc)
        /\ hashes' = IF last THEN PersistAfterFile(hashes, new_hashes) ELSE hashes
    /\ UNCHANGED <<failed_chunks, otherVars, envVars, store, index_exists, current_hashes, current_files,
                   deleted_files, del_file, start_idx, new_hashes, todo, fname,
                   vectors, delete_ids, loads, saves, runHist>>
    /\ UNCHANGED delete_sent

\* save_file_hashes(new_hashes) after the loop.
Save ==
    /\ pc = "loop"
    /\ todo = {}
    /\ hashes' = new_hashes
    /\ saves' = saves + 1
    /\ pc' = "done"
    /\ UNCHANGED <<fileLog, otherVars, envVars, store, index_exists, localVars, faults, calls,
                   delete_ids, loads, histVars>>
    /\ UNCHANGED delete_sent

\* The process is killed in the middle of a run.
Crash ==
    /\ InRun
    /\ events < MaxEvents
    /\ events' = events + 1
    /\ faults' = faults + 1
    /\ pc' = "crashed"
    /\ UNCHANGED <<fileLog, otherVars, envVars, persistVars, localVars, calls, delete_ids, loads,
                   saves, runHist>>
    /\ UNCHANGED delete_sent

Next ==
    \/ \E f \in Names, c \in Contents : WriteFile(f, c)
    \/ \E f \in Names : RemoveFile(f)
    \/ \E f \in Names : MakeUnreadable(f)
    \/ RemoveDocs
    \/ CreateDocs
    \/ StartRun
    \/ EnsureIndexOk
    \/ EnsureIndexFail
    \/ CleanupBegin
    \/ CleanupIndexOk
    \/ CleanupIndexFail
    \/ CleanupNext
    \/ CleanupSave
    \/ DeleteBatchOk
    \/ DeleteBatchFail
    \/ IngestLoad
    \/ IngestIndexFail
    \/ Classify
    \/ Process
    \/ UpsertBatchOk
    \/ UpsertBatchFail
    \/ Save
    \/ Crash

Spec == Init /\ [][Next]_vars

\* ------------------------------------------------------------------------
\* Failure-free operation: files are added, modified and removed between
\* runs, every file can be read, no remote call raises, the process is not
\* killed, and no file has more chunks than the deletion ceiling.

QuietContents == {c \in Contents : ChunkCount(c) <= DeleteCeiling}

QuietNext ==
    \/ \E f \in Names, c \in QuietContents : WriteFile(f, c)
    \/ \E f \in Names : RemoveFile(f)
    \/ StartRun
    \/ EnsureIndexOk
    \/ CleanupBegin
    \/ CleanupIndexOk
    \/ CleanupNext
    \/ CleanupSave
    \/ DeleteBatchOk
    \/ IngestLoad
    \/ Classify
    \/ ProcessWith({})
    \/ UpsertBatchOk
    \/ Save

QuietSpec == Init /\ [][QuietNext]_vars

\* ------------------------------------------------------------------------
\* The /search endpoint: search, query_index and generate_response, against
\* an index left by earlier ingestion runs.  Requests are independent of
\* each other, so a behaviour handles one request.

\* Config.TOP_K
TOP_K == 3

\* Characters of a query: whitespace and anything else.
QueryChars == {" ", "x"}

\* The q parameters tried: every string up to two characters longer than
\* the longest accepted query.
Queries == UNION {[1..n -> QueryChars] : n \in 0..(MAX_QUERY_LENGTH + 2)}

\* str.strip()
RECURSIVE Strip(_)
Strip(str) ==
    IF str = <<>> THEN <<>>
    ELSE IF Head(str) = " " THEN Strip(Tail(str))
    ELSE IF str[Len(str)] = " " THEN Strip(SubSeq(str, 1, Len(str) - 1))
    ELSE str

\* `if not q or not q.strip()` and `len(query) > Config.MAX_QUERY_LENGTH`
Rejected(qq) == Strip(qq) = <<>> \/ Len(Strip(qq)) > MAX_QUERY_LENGTH

\* The index after a.txt (content 4) was ingested, and after b.pdf
\* (content 2) was ingested too.
IndexedA == IndexUpsert(EmptyStore, BuildVectors("a.txt", 4, 0, ChunkCount(4), {}))
IndexedAB == IndexUpsert(IndexedA, BuildVectors("b.pdf", 2, 0, ChunkCount(2), {}))

\* Persisted states the endpoint is queried in.
SearchWorlds ==
    {[store |-> EmptyStore, hashes |-> EmptyMap, index_exists |-> FALSE],
     [store |-> EmptyStore, hashes |-> EmptyMap, index_exists |-> TRUE],
     [store |-> IndexedA, index_exists |-> TRUE,
      hashes |-> RecordHash(EmptyMap, "a.txt", Sha256(4))],
     [store |-> IndexedAB, index_exists |-> TRUE,
      hashes |-> RecordHash(RecordHash(EmptyMap, "a.txt", Sha256(4)), "b.pdf", Sha256(2))]}

SearchInit ==
    /\ IngestIdle
    /\ SearchIdle
    /\ ChunkIdle
    /\ LoopIdle
    /\ \E w \in SearchWorlds :
        /\ store = w.store
        /\ hashes = w.hashes
        /\ index_exists = w.index_exists

\* The remote calls of query_index, in call order.
QueryCalls == <<"index", "embed", "query">>

\* The calls query_index has issued when call number k is reached.
CallsUpTo(k) == {QueryCalls[i] : i \in 1..k}

\* search rejects q with HTTP 400 before any call.
SearchReject(qq) ==
    /\ s_pc = "idle"
    /\ Rejected(qq)
    /\ q' = qq
    /\ query' = Strip(qq)
    /\ status_code' = 400
    /\ s_pc' = "replied"
    /\ UNCHANGED <<ingestVars, chunkVars, loopVars, matches, response, s_calls>>

\* search accepts q: query = q.strip()
SearchAccept(qq) ==
    /\ s_pc = "idle"
    /\ ~Rejected(qq)
    /\ q' = qq
    /\ query' = Strip(qq)
    /\ s_pc' = "query_index"
    /\ UNCHANGED <<ingestVars, chunkVars, loopVars, matches, response, status_code, s_calls>>

\* query_index returns the result of index.query: at most TOP_K matches,
\* each a vector of the index.
QueryIndexOk ==
    /\ s_pc = "query_index"
    /\ index_exists
    /\ \E m \in SUBSET (DOMAIN store) :
        /\ Cardinality(m) <= TOP_K
        /\ matches' = m
    /\ s_calls' = s_calls \cup CallsUpTo(3)
    /\ s_pc' = "generate"
    /\ UNCHANGED <<ingestVars, chunkVars, loopVars, q, query, response, status_code>>

\* Variant of QueryIndexCatches: the exception leaves query_index.
QueryIndexCatches_No == FALSE

\* except Exception in query_index: return {"matches": []}
QueryIndexCatches == TRUE

\* pc.Index, embed_text or index.query raises (call number k).  query_index
\* logs it and returns no matches; an exception leaving query_index would
\* reach the except clause of search, which replies with HTTP 500.
QueryIndexFail(k) ==
    /\ s_pc = "query_index"
    /\ k \in 1..3
    /\ s_calls' = s_calls \cup CallsUpTo(k) \cup {"failed_" \o QueryCalls[k]}
                   \cup (IF QueryIndexCatches THEN {"query_error_logged"} ELSE {})
    /\ matches' = {}
    /\ IF QueryIndexCatches
       THEN /\ s_pc' = "generate"
            /\ UNCHANGED status_code
       ELSE /\ s_pc' = "replied"
            /\ status_code' = 500
    /\ UNCHANGED <<ingestVars, chunkVars, loopVars, q, query, response>>

\* Variant of NoMatches: the guard never fires.
NoMatches_Never(m) == FALSE

\* `if not matches:` in generate_response
NoMatches(m) == m = {}

\* generate_response returns the canned not-found message.
GenerateFallback ==
    /\ s_pc = "generate"
    /\ NoMatches(matches)
    /\ response' = "not_found"
    /\ status_code' = 200
    /\ s_pc' = "replied"
    /\ UNCHANGED <<ingestVars, chunkVars, loopVars, q, query, matches, s_calls>>

\* generate_response calls the generation model and returns its answer.
GenerateAnswer ==
    /\ s_pc = "generate"
    /\ ~NoMatches(matches)
    /\ s_calls' = s_calls \cup {"llm"}
    /\ response' = "answer"
    /\ status_code' = 200
    /\ s_pc' = "replied"
    /\ UNCHANGED <<ingestVars, chunkVars, loopVars, q, query, matches>>

\* The generation model call raises: generate_response returns the canned
\* error message.
GenerateError ==
    /\ s_pc = "generate"
    /\ ~NoMatches(matches)
    /\ s_calls' = s_calls \cup {"llm", "failed_llm", "llm_error_logged"}
    /\ response' = "generation_error"
    /\ status_code' = 200
    /\ s_pc' = "replied"
    /\ UNCHANGED <<ingestVars, chunkVars, loopVars, q, query, matches>>

SearchNext ==
    \/ \E qq \in Queries : SearchReject(qq)
    \/ \E qq \in Queries : SearchAccept(qq)
    \/ QueryIndexOk
    \/ \E k \in 1..3 : QueryIndexFail(k)
    \/ GenerateFallback
    \/ GenerateAnswer
    \/ GenerateError

SearchSpec == SearchInit /\ [][SearchNext]_vars

\* ------------------------------------------------------------------------
\* smart_chunk_text(text, max_chunk_size, overlap), on strings given as
\* sequences of characters.

\* Characters of a text: a letter, a sentence terminator, whitespace.
TextChars == {"a", ".", " "}

\* char in '.!?'
Terminators == {".", "!", "?"}

Texts == UNION {[1..n -> TextChars] : n \in 0..MaxTextLen}

\* `if char in '.!?' and len(current_sentence) > 10`, current_sentence
\* already holding char.
EndsSentence(char, grown) == char \in Terminators /\ Len(grown) > SentenceMinLength

\* The sentence loop from character i on, with current_sentence = cur and
\* the sentences appended so far = acc; then the remaining text.
RECURSIVE SplitSentences(_, _, _, _)
SplitSentences(txt, i, cur, acc) ==
    IF i > Len(txt)
    THEN IF Strip(cur) # <<>> THEN Append(acc, Strip(cur)) ELSE acc
    ELSE LET grown == Append(cur, txt[i]) IN
         IF EndsSentence(txt[i], grown)
         THEN SplitSentences(txt, i + 1, <<>>, Append(acc, Strip(grown)))
         ELSE SplitSentences(txt, i + 1, grown, acc)

\* The positions of the text at which the sentence loop appends a sentence,
\* each with the length current_sentence has there.
RECURSIVE SentenceEnds(_, _, _)
SentenceEnds(txt, i, cur) ==
    IF i > Len(txt) THEN {}
    ELSE LET grown == Append(cur, txt[i]) IN
         IF EndsSentence(txt[i], grown)
         THEN {<<i, Len(grown)>>} \cup SentenceEnds(txt, i + 1, <<>>)
         ELSE SentenceEnds(txt, i + 1, grown)

\* current_chunk[-overlap:]
LastChars(str, n) == SubSeq(str, Len(str) - n + 1, Len(str))

\* `if overlap > 0 and len(current_chunk) > overlap`
CarriesOver(cur, o) == o > 0 /\ Len(cur) > o

\* Variant of OpenChunk: the new chunk starts with the sentence alone or
\* with the overlap alone.
OpenChunk_OverlapOnly(cur, sentence, o) ==
    IF CarriesOver(cur, o) THEN LastChars(cur, o) ELSE sentence

\* The current_chunk a closed chunk is followed by.
OpenChunk(cur, sentence, o) ==
    IF CarriesOver(cur, o) THEN LastChars(cur, o) \o <<" ">> \o sentence ELSE sentence

\* How many leading characters of the chunk opened after cur come from
\* cur: the overlap less the whitespace strip() removes from its front,
\* and the separating space.
CarriedLen(cur, o) == IF CarriesOver(cur, o) THEN Len(Strip(LastChars(cur, o))) + 1 ELSE 0

\* chunks.append(current_chunk.strip())
ClosedChunk(cur, carried) == [text |-> Strip(cur), carried |-> carried]

\* Variant of ClosesChunk: the separating space is not counted.
ClosesChunk_NoSpace(cur, sentence, m) == cur # <<>> /\ Len(cur \o sentence) > m

\* `if current_chunk and len(current_chunk + " " + sentence) > max_chunk_size`
ClosesChunk(cur, sentence, m) == cur # <<>> /\ Len(cur \o <<" ">> \o sentence) > m

\* current_chunk after the iteration for sentence.
NextChunk(cur, sentence, m, o) ==
    IF ClosesChunk(cur, sentence, m) THEN OpenChunk(cur, sentence, o)
    ELSE IF cur # <<>> THEN cur \o <<" ">> \o sentence ELSE sentence

\* What the chunk loop does for each sentence from sentence i on.
RECURSIVE CombineSteps(_, _, _, _, _)
CombineSteps(sents, i, cur, m, o) ==
    IF i > Len(sents) THEN <<>>
    ELSE <<[before |-> cur, sentence |-> sents[i],
            closed |-> ClosesChunk(cur, sents[i], m),
            after |-> NextChunk(cur, sents[i], m, o)]>>
         \o CombineSteps(sents, i + 1, NextChunk(cur, sents[i], m, o), m, o)

\* The chunk loop from sentence i on, with current_chunk = cur; then the
\* final chunk.
RECURSIVE CombineSentences(_, _, _, _, _, _, _)
CombineSentences(sents, i, cur, carried, acc, m, o) ==
    IF i > Len(sents)
    THEN IF Strip(cur) # <<>> THEN Append(acc, ClosedChunk(cur, carried)) ELSE acc
    ELSE LET sentence == sents[i] IN
         IF ClosesChunk(cur, sentence, m)
         THEN CombineSentences(sents, i + 1, OpenChunk(cur, sentence, o),
                               CarriedLen(cur, o), Append(acc, ClosedChunk(cur, carried)), m, o)
         ELSE CombineSentences(sents, i + 1,
                               IF cur # <<>> THEN cur \o <<" ">> \o sentence ELSE sentence,
                               carried, acc, m, o)

\* Variant of FitsChunk: no chunk is ever split by character count.
FitsChunk_Always(chunk, m) == TRUE

\* `if len(chunk) <= max_chunk_size`
FitsChunk(chunk, m) == Len(chunk) <= m

\* chunk[i:i + max_chunk_size] for i in range(0, len(chunk), max_chunk_size),
\* i counted from 0.
RECURSIVE Slices(_, _, _)
Slices(chunk, i, m) ==
    IF i >= Len(chunk) THEN <<>>
    ELSE <<SubSeq(chunk, i + 1, Min(i + m, Len(chunk)))>> \o Slices(chunk, i + m, m)

\* What one chunk contributes to final_chunks.
HardSplit(chunk, m) == IF FitsChunk(chunk, m) THEN <<chunk>> ELSE Slices(chunk, 0, m)

\* The concatenation of a sequence of sequences.
RECURSIVE Flatten(_)
Flatten(ss) == IF ss = <<>> THEN <<>> ELSE Head(ss) \o Flatten(Tail(ss))

\* The arguments smart_chunk_text is called with.
ChunkInit ==
    /\ IngestIdle
    /\ SearchIdle
    /\ LoopIdle
    /\ hashes = EmptyMap
    /\ store = EmptyStore
    /\ index_exists = FALSE
    /\ c_pc = "called"
    /\ text \in Texts
    /\ max_chunk_size \in 1..MaxChunkSize
    /\ overlap \in (-1)..MaxOverlap
    /\ sentences = <<>>
    /\ ends = {}
    /\ steps = <<>>
    /\ chunks = <<>>
    /\ pieces = <<>>
    /\ final_chunks = <<>>

\* `if not text.strip(): return []`
ChunkBlank ==
    /\ c_pc = "called"
    /\ Strip(text) = <<>>
    /\ final_chunks' = <<>>
    /\ c_pc' = "returned"
    /\ UNCHANGED <<ingestVars, searchVars, loopVars, text, max_chunk_size, overlap, sentences,
                   ends, steps, chunks, pieces>>

\* The sentence loop.
ChunkSentences ==
    /\ c_pc = "called"
    /\ Strip(text) # <<>>
    /\ sentences' = SplitSentences(text, 1, <<>>, <<>>)
    /\ ends' = SentenceEnds(text, 1, <<>>)
    /\ c_pc' = "combine"
    /\ UNCHANGED <<ingestVars, searchVars, loopVars, text, max_chunk_size, overlap, steps,
                   chunks, pieces, final_chunks>>

\* The chunk loop.
ChunkCombine ==
    /\ c_pc = "combine"
    /\ chunks' = CombineSentences(sentences, 1, <<>>, 0, <<>>, max_chunk_size, overlap)
    /\ steps' = CombineSteps(sentences, 1, <<>>, max_chunk_size, overlap)
    /\ c_pc' = "split"
    /\ UNCHANGED <<ingestVars, searchVars, loopVars, text, max_chunk_size, overlap, sentences,
                   ends, pieces, final_chunks>>

\* The final loop and the return.
ChunkReturn ==
    /\ c_pc = "split"
    /\ pieces' = [k \in 1..Len(chunks) |-> HardSplit(chunks[k].text, max_chunk_size)]
    /\ final_chunks' = Flatten(pieces')
    /\ c_pc' = "returned"
    /\ UNCHANGED <<ingestVars, searchVars, loopVars, text, max_chunk_size, overlap, sentences,
                   ends, steps, chunks>>

ChunkNext ==
    \/ ChunkBlank
    \/ ChunkSentences
    \/ ChunkCombine
    \/ ChunkReturn

ChunkSpec == ChunkInit /\ [][ChunkNext]_vars

\* ------------------------------------------------------------------------
\* The coroutines of one process on its event loop: startup_event, which
\* awaits ingest_documents, and manual_cleanup, which awaits
\* cleanup_deleted_files.  A coroutine keeps the loop until it suspends or
\* ends; requests are dispatched once startup is complete.  Positions name
\* the statement a coroutine executes next.

\* Variant of Suspends: the coroutine also yields after its deletes.
Suspends_AfterDeletes(pos) == pos \in {"sleeping", "cleanup_save"}

\* The positions at which a coroutine yields to the event loop:
\* `await asyncio.sleep(5)` in ensure_index_exists is the only await on
\* something that suspends; every other call is synchronous.
Suspends(pos) == pos = "sleeping"

\* Where control goes when cleanup_deleted_files returns.
AfterCleanup(t) == IF t = StartupTask THEN "ingest_load" ELSE "end"

\* Coroutine t executes up to position `to`, doing the operations ops on
\* file_hashes.json and the index on the way.
Advance(t, to, ops) ==
    /\ running = t
    /\ task_pc' = [task_pc EXCEPT ![t] = to]
    /\ running' = IF Suspends(to) \/ to \in {"end", "failed"} THEN NoTask ELSE t
    /\ serving' = (serving \/ (t = StartupTask /\ to = "end"))
    /\ io_log' = io_log \o [k \in 1..Len(ops) |-> <<t, ops[k]>>]

LoopInit ==
    /\ IngestIdle
    /\ SearchIdle
    /\ ChunkIdle
    /\ LoopIdle
    /\ hashes = EmptyMap
    /\ store = EmptyStore
    /\ index_exists \in BOOLEAN

loopRest == <<envVars, hashes, store, pc, localVars, logVars, delete_sent, histVars,
              searchVars, chunkVars>>

\* The server runs the startup handler before anything else.
LoopStart ==
    /\ running = NoTask
    /\ task_pc[StartupTask] = "absent"
    /\ task_pc' = [task_pc EXCEPT ![StartupTask] = "docs_check"]
    /\ running' = StartupTask
    /\ UNCHANGED <<loopRest, index_exists, serving, polls, io_log>>

\* A POST /cleanup arrives; it waits until the loop dispatches it.
RequestArrives(t) ==
    /\ t \in CleanupTasks
    /\ serving
    /\ task_pc[t] = "absent"
    /\ task_pc' = [task_pc EXCEPT ![t] = "ready"]
    /\ UNCHANGED <<loopRest, index_exists, running, serving, polls, io_log>>

\* The idle loop starts the handler of a waiting request.
Dispatch(t) ==
    /\ running = NoTask
    /\ task_pc[t] = "ready"
    /\ task_pc' = [task_pc EXCEPT ![t] = "cleanup_load"]
    /\ running' = t
    /\ UNCHANGED <<loopRest, index_exists, serving, polls, io_log>>

\* The idle loop resumes a suspended coroutine.
Resume(t) ==
    /\ running = NoTask
    /\ Suspends(task_pc[t])
    /\ running' = t
    /\ UNCHANGED <<loopRest, index_exists, task_pc, serving, polls, io_log>>

\* `if not os.path.exists(docs_path): return`
TaskDocsCheck ==
    /\ task_pc[StartupTask] = "docs_check"
    /\ \E to \in {"ensure_list", "end"} : Advance(StartupTask, to, <<>>)
    /\ UNCHANGED <<loopRest, index_exists, polls>>

\* ensure_index_exists: the index is listed, or it is created, or a call
\* raises and startup fails.
TaskEnsureList ==
    /\ task_pc[StartupTask] = "ensure_list"
    /\ \/ index_exists /\ Advance(StartupTask, "cleanup_load", <<>>)
       \/ ~index_exists /\ Advance(StartupTask, "ensure_poll", <<>>)
       \/ Advance(StartupTask, "failed", <<>>)
    /\ UNCHANGED <<loopRest, index_exists, polls>>

\* `while Config.INDEX_NAME not in pc.list_indexes().names()`: the index is
\* listed, or not yet and the coroutine sleeps, or the call raises.
TaskEnsurePoll ==
    /\ task_pc[StartupTask] = "ensure_poll"
    /\ \/ /\ Advance(StartupTask, "cleanup_load", <<>>)
          /\ index_exists' = TRUE
          /\ UNCHANGED polls
       \/ /\ polls < MaxPolls
          /\ Advance(StartupTask, "sleeping", <<>>)
          /\ polls' = polls + 1
          /\ UNCHANGED index_exists
       \/ /\ Advance(StartupTask, "failed", <<>>)
          /\ UNCHANGED <<index_exists, polls>>
    /\ UNCHANGED loopRest

\* asyncio.sleep(5) returns.
TaskSleepReturns ==
    /\ task_pc[StartupTask] = "sleeping"
    /\ Advance(StartupTask, "ensure_poll", <<>>)
    /\ UNCHANGED <<loopRest, index_exists, polls>>

\* cleanup_deleted_files loads the map and lists the folder: deleted files
\* are found, or none (or an exception is swallowed) and it returns.
TaskCleanupLoad(t) ==
    /\ task_pc[t] = "cleanup_load"
    /\ \E to \in {"cleanup_delete", AfterCleanup(t)} : Advance(t, to, <<"load">>)
    /\ UNCHANGED <<loopRest, index_exists, polls>>

\* The delete loop of cleanup_deleted_files (or pc.Index raises, which is
\* swallowed, and it returns).
TaskCleanupDelete(t) ==
    /\ task_pc[t] = "cleanup_delete"
    /\ \/ Advance(t, "cleanup_save", <<"delete">>)
       \/ Advance(t, AfterCleanup(t), <<>>)
    /\ UNCHANGED <<loopRest, index_exists, polls>>

\* save_file_hashes(updated_hashes), then cleanup_deleted_files returns.
TaskCleanupSave(t) ==
    /\ task_pc[t] = "cleanup_save"
    /\ Advance(t, AfterCleanup(t), <<"save">>)
    /\ UNCHANGED <<loopRest, index_exists, polls>>

\* pc.Index, which may raise, and load_file_hashes in ingest_documents.
TaskIngestLoad ==
    /\ task_pc[StartupTask] = "ingest_load"
    /\ \/ Advance(StartupTask, "ingest_files", <<"load">>)
       \/ Advance(StartupTask, "failed", <<>>)
    /\ UNCHANGED <<loopRest, index_exists, polls>>

\* The loop over the files of the folder: deletes and upserts, or nothing
\* when every file is unchanged.
TaskIngestFiles ==
    /\ task_pc[StartupTask] = "ingest_files"
    /\ \E ops \in {<<>>, <<"upsert">>, <<"delete", "upsert">>} :
          Advance(StartupTask, "ingest_save", ops)
    /\ UNCHANGED <<loopRest, index_exists, polls>>

\* save_file_hashes(new_hashes); ingest_documents returns and startup is
\* complete.
TaskIngestSave ==
    /\ task_pc[StartupTask] = "ingest_save"
    /\ Advance(StartupTask, "end", <<"save">>)
    /\ UNCHANGED <<loopRest, index_exists, polls>>

LoopNext ==
    \/ LoopStart
    \/ \E t \in CleanupTasks : RequestArrives(t)
    \/ \E t \in CleanupTasks : Dispatch(t)
    \/ \E t \in Tasks : Resume(t)
    \/ TaskDocsCheck
    \/ TaskEnsureList
    \/ TaskEnsurePoll
    \/ TaskSleepReturns
    \/ \E t \in Tasks : TaskCleanupLoad(t)
    \/ \E t \in Tasks : TaskCleanupDelete(t)
    \/ \E t \in Tasks : TaskCleanupSave(t)
    \/ TaskIngestLoad
    \/ TaskIngestFiles
    \/ TaskIngestSave

LoopSpec == LoopInit /\ [][LoopNext]_vars

\* ------------------------------------------------------------------------
\* Vocabulary of the properties.

\* Identifiers of the vectors of file f in the index.
StoreIdsOf(f) == {id \in DOMAIN store : id[1] = f}

\* The vectors of file f in the index.
StoreOf(f) == [id \in StoreIdsOf(f) |-> store[id]]

\* Operations issued for file f in this run.
CallsFor(f) == {c \in calls : c[2] = f}

\* Tracked at the start of the run and gone from the folder.
DeletedFiles == {f \in DOMAIN start_hashes : ~Eligible(f)}

\* Tracked at the start of the run, present, with another hash.
ChangedFiles ==
    {f \in Names : Eligible(f) /\ f \in DOMAIN start_hashes
                   /\ start_hashes[f] # file_checksum(f)}

\* Present and not tracked at the start of the run.
NewFiles == {f \in Names : Eligible(f) /\ f \notin DOMAIN start_hashes}

\* Tracked, present, and hashing to the persisted hash.
TrackedUnchanged(f) ==
    Eligible(f) /\ f \in DOMAIN hashes /\ hashes[f] = file_checksum(f)

\* The vector under id was made from the file's present content.
IsCurrentVector(f, id) ==
    folder[f].readable /\ store[id].text = <<folder[f].content, id[2]>>

\* ------------------------------------------------------------------------
\* C1 -- Idempotence: a run that follows a completed run with no folder
\* edit in between issues no delete and no upsert call, and when it ends
\* file_hashes.json is what it was when the run started.
C1_Idempotent ==
    prev_done =>
        /\ \A c \in calls : c[1] \notin {"delete", "upsert"}
        /\ pc \in {"done", "nodocs"} => hashes = start_hashes

\* A second run over an indexed folder has ended.
C1_Witness ==
    /\ prev_done
    /\ pc = "done"
    /\ DOMAIN hashes # {}
    /\ DOMAIN store # {}

\* C2 -- Every step of a run leaves a tracked file with an unchanged hash
\* alone: no operation is logged for it, its vectors and its entry in
\* file_hashes.json stay as they are; and every operation of the run is for
\* a file that is new, changed or deleted.
C2_UnchangedUntouched ==
    [][InRun =>
        /\ \A f \in Names :
            TrackedUnchanged(f) =>
                /\ CallsFor(f)' = {}
                /\ StoreOf(f)' = StoreOf(f)
                /\ f \in DOMAIN hashes'
                /\ hashes'[f] = hashes[f]
        /\ \A c \in calls' : c[2] \in NewFiles \cup ChangedFiles \cup DeletedFiles
      ]_vars

\* A run ended in which a tracked unchanged file kept its vectors while
\* another file was upserted.
C2_Witness ==
    /\ pc = "done"
    /\ \E f, g \in Names :
        /\ f # g
        /\ Eligible(f)
        /\ f \in DOMAIN start_hashes
        /\ start_hashes[f] = file_checksum(f)
        /\ StoreIdsOf(f) # {}
        /\ f \in DOMAIN new_hashes
        /\ <<"upsert", g>> \in calls

\* The upserts of a changed file come after delete_vectors_for_file returned.
DeleteBeforeUpsert ==
    \A f \in ChangedFiles :
        <<"upsert", f>> \in calls => <<"delete_return", f>> \in calls

C4_DeletionCovers ==
    pc = "done" =>
        \A f \in DeletedFiles :
            /\ f \notin DOMAIN hashes
            /\ \A id \in StoreIdsOf(f) : id[2] < DeleteCeiling => id \in delete_ids

\* C5 -- A run without any failure that ends while vectors of a file are
\* orphaned (the file is gone and its cleanup deletion failed earlier) has
\* issued a delete for that file.
C5_OrphansRetried ==
    (pc = "done" /\ faults = 0) =>
        \A f \in orphaned :
            (\E id \in StoreIdsOf(f) : id[2] < DeleteCeiling) => <<"delete", f>> \in calls

\* C6 -- When a run ends, file_hashes.json has an entry for a name exactly
\* when that file is present, eligible and was hashed successfully, and the
\* entry is the file's content hash.
C6_TerminalMap ==
    pc = "done" =>
        \A f \in Names :
            /\ f \in DOMAIN hashes <=> (Eligible(f) /\ folder[f].readable)
            /\ f \in DOMAIN hashes => hashes[f] = Sha256(folder[f].content)

\* C7 -- A new or changed file that produced no vector has its hash in
\* file_hashes.json when the run ends, and as long as the file is not
\* edited no later run issues any operation for it.
C7_BarrenRecordedAndSkipped ==
    /\ pc = "done" =>
        \A f \in NoVectorFiles : f \in DOMAIN hashes /\ hashes[f] = file_checksum(f)
    /\ \A f \in barren :
        /\ CallsFor(f) = {}
        /\ f \in DOMAIN hashes
        /\ hashes[f] = file_checksum(f)

\* A later run classified and skipped a readable file with chunks whose
\* embeddings had all failed.
C7_Witness ==
    /\ pc = "done"
    /\ \E f \in barren :
        /\ ExtractedChunks(f) > 0
        /\ f \in DOMAIN new_hashes
        /\ StoreIdsOf(f) = {}

\* C8 as stated -- The run after an interrupted run does not extract, embed
\* or upsert the files the interrupted run had completed.
C8_CompletedNotReprocessed ==
    after_crash =>
        \A f \in crash_completed :
            CallsFor(f) \cap {<<"extract", f>>, <<"embed", f>>, <<"upsert", f>>} = {}

\* C8 amended -- The run after an interrupted run, once it ends, has
\* processed again every file the interrupted run had completed.
C8_CompletedReprocessed ==
    (after_crash /\ pc = "done") =>
        \A f \in crash_completed :
            {<<"extract", f>>, <<"finished", f>>} \subseteq calls

\* The run after an interrupted run upserted again a file the interrupted
\* run had completed, next to a file it had not reached.
C8_Witness ==
    /\ after_crash
    /\ pc = "done"
    /\ \E f \in crash_completed, g \in Names \ crash_completed :
        /\ <<"upsert", f>> \in calls
        /\ <<"upsert", g>> \in calls

C10_RemainingBatchesAttempted ==
    \A f \in Names :
        <<"delete_return", f>> \in calls =>
            \A i \in 0 .. DeleteCeiling - 1 : <<f, i>> \in delete_ids

\* ------------------------------------------------------------------------
\* The identifiers named by a sequence of upsert calls, in call order.
RECURSIVE SentIds(_)
SentIds(sent) ==
    IF sent = <<>> THEN <<>> ELSE Head(sent).ids \o SentIds(Tail(sent))

\* The iteration of fname ended after its upsert loop.
UpsertLoopEnded == <<"finished", fname>> \in calls /\ vectors # <<>>

\* C11 -- Upsert batches: every upsert call carries between one and
\* UpsertBatch vectors (100 in the code); a failed call is logged and does
\* not end the loop: the calls issued so far name the first upsert_i entries
\* of vectors, and when the loop has ended the calls together name every
\* embedded chunk of the file exactly once, in order, whichever calls failed.
C11_UpsertBatchesCoverVectors ==
    /\ \A k \in 1..Len(upsert_sent) :
          /\ Len(upsert_sent[k].ids) \in 1..UpsertBatch
          /\ ~upsert_sent[k].ok => <<"upsert_failed", upsert_sent[k].ids[1][1]>> \in calls
    /\ pc = "upsert" =>
          SentIds(upsert_sent) = BatchIds(SubSeq(vectors, 1, Min(upsert_i, Len(vectors))))
    /\ UpsertLoopEnded => SentIds(upsert_sent) = BatchIds(vectors)

\* A file's upsert loop has ended with several calls, one of which failed
\* before the last one.
C11_Witness ==
    /\ pc = "loop"
    /\ UpsertLoopEnded
    /\ Len(upsert_sent) >= 2
    /\ \E k \in 1..(Len(upsert_sent) - 1) : ~upsert_sent[k].ok

\* ------------------------------------------------------------------------
\* The embedding loop of fname has run.
EmbeddingLoopEnded == <<"embed", fname>> \in calls

\* The chunk indexes of fname whose embedding succeeded.
EmbeddedChunks == (0 .. ExtractedChunks(fname) - 1) \ failed_chunks

\* C12 -- A failed embedding drops only its own chunk: after the embedding
\* loop of a file, vectors holds exactly the chunks whose embedding
\* succeeded, in chunk order, each under identifier filename-i with
\* chunk_index = i (its position among all chunks) and total_chunks = the
\* number of chunks produced; when the upsert loop has ended each of them
\* was named in an upsert call, and those whose call succeeded are in the
\* index with that metadata.
C12_FailedChunkOnlyDropped ==
    EmbeddingLoopEnded =>
        /\ {vectors[k].id : k \in 1..Len(vectors)} = {<<fname, i>> : i \in EmbeddedChunks}
        /\ \A k \in 1..Len(vectors) :
              /\ vectors[k].metadata.source = fname
              /\ vectors[k].metadata.chunk_index = vectors[k].id[2]
              /\ vectors[k].metadata.total_chunks = ExtractedChunks(fname)
              /\ \A j \in 1..(k - 1) : vectors[j].id[2] < vectors[k].id[2]
        /\ UpsertLoopEnded =>
              /\ \A i \in EmbeddedChunks :
                    \E k \in 1..Len(upsert_sent) :
                        \E x \in 1..Len(upsert_sent[k].ids) : upsert_sent[k].ids[x] = <<fname, i>>
              /\ \A k \in 1..Len(upsert_sent) :
                    upsert_sent[k].ok =>
                        \A x \in 1..Len(upsert_sent[k].ids) :
                            LET id == upsert_sent[k].ids[x] IN
                            /\ id \in DOMAIN store
                            /\ store[id].chunk_index = id[2]
                            /\ store[id].total_chunks = ExtractedChunks(fname)

\* The embedding of a middle chunk failed and the chunks before and after it
\* are in the index under their original positions.
C12_Witness ==
    /\ UpsertLoopEnded
    /\ \E i \in failed_chunks :
          /\ \E j \in EmbeddedChunks :
                j < i /\ <<fname, j>> \in DOMAIN store /\ IsCurrentVector(fname, <<fname, j>>)
          /\ \E j \in EmbeddedChunks :
                j > i /\ <<fname, j>> \in DOMAIN store /\ IsCurrentVector(fname, <<fname, j>>)

\* ------------------------------------------------------------------------
\* A remote call of query_index raised during this request.
QueryFailed == s_calls \cap {"failed_index", "failed_embed", "failed_query"} # {}

\* C13 -- Query-time failures degrade to "no matches": when pc.Index, the
\* query embedding or index.query raises, the failure is logged, the match
\* list is empty, no HTTP 500 is sent and the generation model is not
\* called; the reply is HTTP 200 with the canned not-found message.
C13_QueryFailureIsNoMatches ==
    QueryFailed =>
        /\ "query_error_logged" \in s_calls
        /\ matches = {}
        /\ "llm" \notin s_calls
        /\ s_pc \in {"generate", "replied"}
        /\ s_pc = "replied" => status_code = 200 /\ response = "not_found"

\* A search whose query embedding failed has been answered.
C13_Witness ==
    /\ s_pc = "replied"
    /\ "failed_embed" \in s_calls
    /\ store # EmptyStore
    /\ response = "not_found"

\* C14 -- Empty-context answer: a reply composed from an empty match list
\* is the canned not-found message and no generation-model call was
\* issued; the generation model is called only with at least one match,
\* and with at least one match it is always called.
C14_NoGenerationOnEmptyContext ==
    /\ "llm" \in s_calls => matches # {}
    /\ (s_pc = "replied" /\ status_code = 200) =>
          /\ matches = {} => response = "not_found" /\ "llm" \notin s_calls
          /\ matches # {} => response \in {"answer", "generation_error"} /\ "llm" \in s_calls

\* index.query succeeded with no match and the request has been answered.
C14_Witness ==
    /\ s_pc = "replied"
    /\ "query" \in s_calls
    /\ ~QueryFailed
    /\ matches = {}
    /\ response = "not_found"
    /\ "llm" \notin s_calls

\* ------------------------------------------------------------------------
\* C15 -- Chunk size bound: for every text, every max_chunk_size >= 1 and
\* every overlap, each returned chunk is at most max_chunk_size characters
\* long, and a blank text (empty or whitespace only) returns the empty list.
C15_ChunkSizeBound ==
    c_pc = "returned" =>
        /\ \A k \in 1..Len(final_chunks) : Len(final_chunks[k]) <= max_chunk_size
        /\ Strip(text) = <<>> => final_chunks = <<>>

\* A chunk seeded with overlap came out longer than max_chunk_size and was
\* split by character count.
C15_Witness ==
    /\ c_pc = "returned"
    /\ \E k \in 1..Len(chunks) :
          /\ chunks[k].carried > 0
          /\ Len(chunks[k].text) > max_chunk_size
          /\ Len(pieces[k]) >= 2

\* The part of chunk k that was not carried over from chunk k - 1.
NewPart(k) == SubSeq(chunks[k].text, chunks[k].carried + 1, Len(chunks[k].text))

\* " ".join(strs)
RECURSIVE JoinSpace(_)
JoinSpace(strs) ==
    IF strs = <<>> THEN <<>>
    ELSE IF Len(strs) = 1 THEN Head(strs)
    ELSE Head(strs) \o <<" ">> \o JoinSpace(Tail(strs))

\* str ends with suffix.
EndsWith(str, suffix) ==
    Len(suffix) <= Len(str) /\ LastChars(str, Len(suffix)) = suffix

\* C16 -- Chunk reconstruction: the returned list is the chunks in order,
\* each whole or cut into consecutive slices; the region a chunk carries
\* over is a suffix of the previous chunk followed by one space; and the
\* chunks without their carried-over regions, joined by single spaces, are
\* the sentences of the text joined by single spaces: no sentence is lost,
\* duplicated or reordered.
C16_ChunksReconstructSentences ==
    (c_pc = "returned" /\ Strip(text) # <<>>) =>
        /\ final_chunks = Flatten(pieces)
        /\ \A k \in 1..Len(chunks) :
              /\ Flatten(pieces[k]) = chunks[k].text
              /\ chunks[k].carried < Len(chunks[k].text)
              /\ chunks[k].carried > 0 =>
                    /\ k > 1
                    /\ chunks[k].text[chunks[k].carried] = " "
                    /\ EndsWith(chunks[k - 1].text,
                                SubSeq(chunks[k].text, 1, chunks[k].carried - 1))
        /\ JoinSpace([k \in 1..Len(chunks) |-> NewPart(k)]) = JoinSpace(sentences)

\* Several sentences went into several chunks, one of them seeded with
\* overlap and one of them split by character count.
C16_Witness ==
    /\ c_pc = "returned"
    /\ Len(sentences) >= 2
    /\ Len(chunks) >= 2
    /\ \E k \in 1..Len(chunks) : chunks[k].carried > 0
    /\ \E k \in 1..Len(chunks) : Len(pieces[k]) >= 2

\* ------------------------------------------------------------------------
\* C17 -- When a run has ended, every key of file_hashes.json is a file
\* with at least one vector in the index.
C17_KeysHaveVectors ==
    pc = "done" => \A f \in DOMAIN hashes : StoreIdsOf(f) # {}

\* C17, as the code has it -- When a run has ended, the keys of
\* file_hashes.json are exactly the eligible files of the folder, and every
\* file the run issued an upsert for is among them; a key need not have a
\* vector in the index.
C17_KeysAreEligibleFiles ==
    pc = "done" =>
        /\ DOMAIN hashes = ListCurrentFiles
        /\ \A f \in Names : <<"upsert", f>> \in calls => f \in DOMAIN hashes

\* A run has ended with one key that has vectors and one key that has none.
C17_Witness ==
    /\ pc = "done"
    /\ \E f \in DOMAIN hashes : StoreIdsOf(f) = {}
    /\ \E f \in DOMAIN hashes : StoreIdsOf(f) # {}

\* ------------------------------------------------------------------------
\* An operation of the add/update pass has been issued in this run.
AddUpdateStarted == \E g \in Names : Eligible(g) /\ CallsFor(g) # {}

\* C19 -- Run ordering: past its first step the run has ensured the index;
\* once any delete, extraction, embedding or upsert for a new or changed
\* file has been issued, the delete of every file that disappeared has
\* returned and the file is no longer a key of file_hashes.json; and the
\* write of the full map is the last step.
C19_RunOrder ==
    /\ (InRun /\ pc # "ensure") => index_exists
    /\ AddUpdateStarted =>
          \A f \in DeletedFiles :
              <<"delete_return", f>> \in calls /\ f \notin DOMAIN hashes
    /\ pc = "done" => hashes = new_hashes

\* ------------------------------------------------------------------------
\* Positions inside the iteration of one file of the add/update pass.
InFile == {"ingest_delete", "process", "upsert"}

\* A remote call made for the current file failed in this step and the
\* process was not killed.
FileStepFailed == pc \in InFile /\ faults' > faults /\ pc' # "crashed"

\* C20 -- Failure isolation across files: a failed delete, extraction,
\* embedding or upsert for one file leaves the run inside the loop with the
\* files still to come and the hashes recorded so far untouched; a run is
\* given up only before the first file is looked at; and a run that ends
\* has written the map with every eligible file in it, each either
\* unchanged or taken through the add/update path to its end.
C20_FailureIsolation ==
    /\ [][FileStepFailed =>
            /\ pc' \in InFile \cup {"loop"}
            /\ todo' = todo
            /\ new_hashes' = new_hashes]_vars
    /\ [](pc = "aborted" => new_hashes = EmptyMap /\ ~AddUpdateStarted)
    /\ [](pc = "done" =>
            /\ saves >= 1
            /\ hashes = new_hashes
            /\ \A f \in ListCurrentFiles :
                  /\ f \in DOMAIN new_hashes
                  /\ \/ IsUnchanged(current_hashes, f, file_checksum(f))
                     \/ <<"finished", f>> \in calls)

\* A run has ended in which a store call for one file failed and a file
\* looked at after it was indexed.
C20_Witness ==
    /\ pc = "done"
    /\ \E f \in Names \ {fname} :
          {<<"delete_failed", f>>, <<"upsert_failed", f>>} \cap calls # {}
    /\ UpsertLoopEnded
    /\ \A k \in 1..Len(upsert_sent) : upsert_sent[k].ok
    /\ StoreIdsOf(fname) # {}

\* ------------------------------------------------------------------------
\* Positions of a cycle between its load of file_hashes.json and the end of
\* its last save.
CyclePositions ==
    {"cleanup_delete", "cleanup_save", "ingest_load", "ingest_files", "ingest_save"}

\* C18 -- Single-flight: while one cycle (the startup ingestion or a
\* /cleanup request) is between its load of file_hashes.json and its last
\* save, no other cycle of the process is at or past its own load; the
\* loads, saves, deletes and upserts of one cycle are never interleaved
\* with those of another.
C18_SingleFlight ==
    /\ \A t \in Tasks :
          task_pc[t] \in CyclePositions =>
              \A u \in Tasks \ {t} : task_pc[u] \notin CyclePositions \cup {"cleanup_load"}
    /\ \A i, j, k \in 1..Len(io_log) :
          (i < j /\ j < k /\ io_log[i][1] = io_log[k][1]) => io_log[j][1] = io_log[i][1]

\* A /cleanup request is deleting while another one has arrived and waits.
C18_Witness ==
    \E t \in CleanupTasks :
        /\ task_pc[t] = "cleanup_delete"
        /\ \E u \in CleanupTasks \ {t} : task_pc[u] = "ready"
        /\ \E k \in 1..Len(io_log) : io_log[k] = <<StartupTask, "save">>

\* delete_vectors_for_file has returned for del_file, and delete_sent holds
\* the calls it made.
DeleteReturned == delete_sent # <<>> /\ <<"delete_return", del_file>> \in calls

\* No index.delete of the call raised.
NoDeleteFailed == \A k \in 1..Len(delete_sent) : delete_sent[k].ok

\* C21 -- When no delete batch fails, delete_vectors_for_file(filename)
\* issues one delete call per batch of the range up to the ceiling (10 calls
\* of 100 identifiers with the literals of the code): every call names a
\* full batch of identifiers, the last one what is left of the range, and
\* the calls' identifier sets partition {filename-0, ..., filename-(ceiling
\* - 1)}, whichever of those identifiers are in the index.
C21_DeleteCallsPartitionRange ==
    (DeleteReturned /\ NoDeleteFailed) =>
        LET n == Len(delete_sent) IN
        /\ (n - 1) * DeleteBatch < DeleteCeiling
        /\ n * DeleteBatch >= DeleteCeiling
        /\ \A k \in 1..n :
              Cardinality(delete_sent[k].ids)
                  = Min(DeleteBatch, DeleteCeiling - (k - 1) * DeleteBatch)
        /\ \A k, l \in 1..n : k # l => delete_sent[k].ids \cap delete_sent[l].ids = {}
        /\ UNION {delete_sent[k].ids : k \in 1..n}
              = {<<del_file, i>> : i \in 0..(DeleteCeiling - 1)}

\* C21 witness: a call returned without a failed batch, and one of its
\* delete calls named identifiers that were in the index while another
\* named only identifiers that were not.
C21_Witness ==
    /\ DeleteReturned
    /\ NoDeleteFailed
    /\ \E k \in 1..Len(delete_sent) : delete_sent[k].hit # {}
    /\ \E k \in 1..Len(delete_sent) : delete_sent[k].hit = {}

\* ------------------------------------------------------------------------
\* The chunk loop has run: the text was not blank.
ChunkLoopDone == c_pc \in {"split", "returned"} /\ Strip(text) # <<>>

\* The trailing n characters of str, all of it when it is shorter.
Trailing(str, n) == LastChars(str, Min(n, Len(str)))

\* The chunk is closed exactly when it is non-empty and the sentence, with
\* a separating space, would take it past the maximum size.
ClosedExactlyWhenFull(st) ==
    st.closed <=> (st.before # <<>>
                   /\ Len(st.before) + 1 + Len(st.sentence) > max_chunk_size)

\* A sentence ends inside the text only at a terminator reached with more
\* than the minimum length accumulated.
TerminatedOnlyWhenLong ==
    \A e \in ends : text[e[1]] \in Terminators /\ e[2] > SentenceMinLength

\* The chunks closed inside the loop are, in order, the leading entries of
\* chunks.
ClosedAreChunks ==
    LET closed == SelectSeq(steps, LAMBDA st : st.closed) IN
    /\ Len(chunks) = Len(closed) + 1
    /\ \A k \in 1..Len(closed) : chunks[k].text = Strip(closed[k].before)

\* C22 as stated -- for a positive overlap, the chunk loop closes the
\* current chunk exactly when it is non-empty and the next sentence with a
\* separating space would exceed the maximum size, and every chunk opened
\* after a close is the trailing `overlap` characters of the closed chunk,
\* a space and the new sentence; a sentence ends at a terminator only when
\* more than the minimum length has accumulated.
C22_CloseSeedsOverlap ==
    (ChunkLoopDone /\ overlap > 0) =>
        /\ TerminatedOnlyWhenLong
        /\ \A i \in 1..Len(steps) :
              /\ ClosedExactlyWhenFull(steps[i])
              /\ steps[i].closed =>
                    steps[i].after = Trailing(steps[i].before, overlap)
                                     \o <<" ">> \o steps[i].sentence

\* C22 amended -- the chunk loop closes the current chunk exactly when it
\* is non-empty and the next sentence with a separating space would exceed
\* the maximum size; the chunk opened next is the trailing `overlap`
\* characters of the closed chunk, a space and the new sentence when
\* overlap is positive and the closed chunk is longer than overlap, and the
\* new sentence alone otherwise; a sentence ends inside the text exactly at
\* a terminator reached with more than the minimum length accumulated.
C22_CloseSeedsOverlapWhenLonger ==
    ChunkLoopDone =>
        /\ TerminatedOnlyWhenLong
        /\ \A i \in 1..Len(text) :
              LET before == {e[1] : e \in {d \in ends : d[1] < i}}
                  from == IF before = {} THEN 0
                          ELSE CHOOSE b \in before : \A c \in before : c <= b
              IN  (text[i] \in Terminators /\ i - from > SentenceMinLength)
                      => <<i, i - from>> \in ends
        /\ ClosedAreChunks
        /\ \A i \in 1..Len(steps) :
              /\ ClosedExactlyWhenFull(steps[i])
              /\ steps[i].closed =>
                    steps[i].after =
                        IF overlap > 0 /\ Len(steps[i].before) > overlap
                        THEN Trailing(steps[i].before, overlap)
                             \o <<" ">> \o steps[i].sentence
                        ELSE steps[i].sentence

\* C22 witness: in one call a sentence ended at a terminator, one chunk was
\* closed and the next seeded with its trailing characters, and another
\* chunk no longer than a positive overlap was closed and the next opened
\* with the sentence alone.
C22_Witness ==
    /\ c_pc = "returned"
    /\ ends # {}
    /\ overlap > 0
    /\ \E i \in 1..Len(steps) : steps[i].closed /\ Len(steps[i].before) > overlap
    /\ \E i \in 1..Len(steps) : steps[i].closed /\ Len(steps[i].before) <= overlap

\* ------------------------------------------------------------------------
\* cleanup_deleted_files has saved the map in this run and the add/update
\* phase has not written it yet.
CleanupSaved == saves = 1 /\ pc \in {"ingest_load", "loop"} \cup InFile

ExpectedIds(f) == {<<f, i>> : i \in 0 .. (ChunkCount(folder[f].content) - 1)}

\* C24 -- Failure-free consistency: starting from an empty index and an
\* empty map, after any sequence of folder edits and completed runs without
\* failures and without a file above the deletion ceiling, the identifiers
\* in the index are exactly f-i for the eligible files f in the folder at
\* the last run and 0 <= i < the number of chunks of f's content.
C24_StoreMatchesFolder ==
    pc = "done" =>
        DOMAIN store = UNION {ExpectedIds(f) : f \in {g \in Names : Eligible(g)}}

\* C24 witness: a completed run that cleaned up a removed file and
\* re-indexed a modified one, whose old vectors it deleted.
C24_Witness ==
    /\ pc = "done"
    /\ store # EmptyStore
    /\ \E f \in DOMAIN start_hashes : ~Present(f) /\ <<"cleaned", f>> \in calls
    /\ \E f \in DOMAIN start_hashes :
          /\ Eligible(f)
          /\ start_hashes[f] # hashes[f]
          /\ <<"delete_true", f>> \in calls
          /\ <<"upsert", f>> \in calls

\* ------------------------------------------------------------------------
\* A call of ensure_index_exists raises.
EnsureFailed == pc = "ensure" /\ faults' > faults /\ pc' # "crashed"

\* Nothing has been asked of the index's vectors or of file_hashes.json
\* in this run.
NothingIssued ==
    /\ calls = {}
    /\ delete_ids = {}
    /\ upsert_sent = <<>>
    /\ delete_sent = <<>>
    /\ loads = 0
    /\ saves = 0
    /\ hashes = start_hashes

\* The run ended because ensure_index_exists raised: file_hashes.json was
\* never loaded.
AbortedAtEnsure == pc = "aborted" /\ loads = 0

\* C25 -- If ensure_index_exists raises, ingest_documents raises before any
\* other step: no vector delete or upsert is issued, file_hashes.json is
\* neither read nor written, and the map and the vectors are as they were;
\* and when the docs folder is missing the run returns without any call to
\* the index and without writing the map.
C25_EarlyExitTouchesNothing ==
    /\ [][EnsureFailed => (pc' = "aborted" /\ hashes' = hashes /\ store' = store)]_vars
    /\ [][(pc' = "nodocs" /\ pc # "nodocs") =>
             (~docs_exists /\ hashes' = hashes /\ store' = store
              /\ index_exists' = index_exists)]_vars
    /\ [](pc \in {"ensure", "nodocs"} => NothingIssued)
    /\ [](AbortedAtEnsure => NothingIssued)

\* C25 witness: ensure_index_exists raised in a run that had a removed file
\* to clean up and vectors in the index.
C25_Witness ==
    /\ AbortedAtEnsure
    /\ store # EmptyStore
    /\ \E f \in DOMAIN hashes : ~Eligible(f)

====
